---- MODULE Spec2Model ----
(***************************************************************************)
(* Invoice duplicate detector: the content fingerprint and the pipeline     *)
(* intake -> extract -> local dedup -> repository compare -> repository     *)
(* update -> cleanup of DF_Final.py (the PyQt variant runs the same stages).*)
(*                                                                          *)
(* A text is a sequence of one-character strings.  A directory is a         *)
(* function from file names to file contents.  A file name is a record      *)
(* [base, ext]; a repository name is a record [stamp, n] standing for       *)
(* INVC_<stamp>.txt (n = 0) and INVC_<stamp>_<n>.txt (n > 0).               *)
(***************************************************************************)
EXTENDS Integers, Sequences, FiniteSets, TLC

\* ------------------------------------------------------------------ bounds
MaxLen == 3        \* longest text drawn for the fingerprint specification
MaxSrc == 3        \* most files in the source tree
MaxRepo == 2       \* most entries in the repository before the run
MaxRuns == 2       \* most clicks on Start that start a worker
MaxLog == 4        \* most lines passed to GUI_Logger.log

\* ------------------------------------------------------ program constants
MinTextLen == 30   \* shortest text the extraction accepts
maxsize == 0       \* queue.Queue(): the capacity, none if not positive

\* ------------------------------------------------------------- characters
Whitespace == {" ", "\t", "\n"}

\* str.lower() on the characters of the model's alphabet
LowerChar(c) ==
    CASE c = "A" -> "a"
      [] c = "B" -> "b"
      [] c = "F" -> "f"
      [] c = "I" -> "i"
      [] c = "N" -> "n"
      [] c = "V" -> "v"
      [] OTHER -> c

lower(s) == [i \in 1..Len(s) |-> LowerChar(s[i])]

\* str.split() without argument: the maximal runs of non-whitespace
RECURSIVE SplitWs(_, _, _)
SplitWs(s, word, words) ==
    IF s = <<>>
    THEN IF word = <<>> THEN words ELSE Append(words, word)
    ELSE IF Head(s) \in Whitespace
         THEN SplitWs(Tail(s), <<>>,
                      IF word = <<>> THEN words ELSE Append(words, word))
         ELSE SplitWs(Tail(s), Append(word, Head(s)), words)

\* a split on the blank only: what text.split(' ') would keep together
RECURSIVE SplitBlank(_, _, _)
SplitBlank(s, word, words) ==
    IF s = <<>>
    THEN IF word = <<>> THEN words ELSE Append(words, word)
    ELSE IF Head(s) = " "
         THEN SplitBlank(Tail(s), <<>>,
                         IF word = <<>> THEN words ELSE Append(words, word))
         ELSE SplitBlank(Tail(s), Append(word, Head(s)), words)

split_blank_only(s) == SplitBlank(s, <<>>, <<>>)

split(s) == SplitWs(s, <<>>, <<>>)

\* ''.join(words)
RECURSIVE join(_)
join(words) == IF words = <<>> THEN <<>> ELSE Head(words) \o join(Tail(words))

\* str.strip(): leading and trailing whitespace removed
RECURSIVE lstrip(_)
lstrip(s) == IF s # <<>> /\ Head(s) \in Whitespace THEN lstrip(Tail(s)) ELSE s

RECURSIVE rstrip(_)
rstrip(s) ==
    IF s # <<>> /\ s[Len(s)] \in Whitespace
    THEN rstrip(SubSeq(s, 1, Len(s) - 1))
    ELSE s

strip(s) == rstrip(lstrip(s))

\* str.encode('utf-8') on the model's (ASCII) alphabet: one byte per character
Utf8Byte(c) ==
    CASE c = "\t" -> 9
      [] c = "\n" -> 10
      [] c = " " -> 32
      [] c = "#" -> 35
      [] c = "1" -> 49
      [] c = "2" -> 50
      [] c = "3" -> 51
      [] c = "A" -> 65
      [] c = "B" -> 66
      [] c = "F" -> 70
      [] c = "I" -> 73
      [] c = "N" -> 78
      [] c = "V" -> 86
      [] c = "a" -> 97
      [] c = "b" -> 98
      [] c = "c" -> 99
      [] c = "e" -> 101
      [] c = "f" -> 102
      [] c = "i" -> 105
      [] c = "n" -> 110
      [] c = "o" -> 111
      [] c = "r" -> 114
      [] c = "v" -> 118
      [] OTHER -> 120

encode(s) == [i \in 1..Len(s) |-> Utf8Byte(s[i])]

\* hashlib.sha256(bytes).hexdigest(): the digest is kept symbolic, one digest per
\* byte string (SHA-256 taken as collision-free).
hexdigest(bytes) == [sha256 |-> bytes]

sha256_hash(text) == hexdigest(encode(join(split(lower(text)))))

\* ------------------------------------------------------------- file names
\* The model's base names are lower-case; only the extension varies in case.
Name(b, e) == [base |-> b, ext |-> e]

LowerExt(e) ==
    CASE e = "PDF" -> "pdf"
      [] e = "TXT" -> "txt"
      [] OTHER -> e

\* f.endswith('.pdf'): the test without the lower()
endswith_pdf(f) == f.ext = "pdf"

\* f.lower().endswith('.pdf') and f.lower().endswith('.txt')
IsPdf(f) == LowerExt(f.ext) = "pdf"

IsTxt(f) == LowerExt(f.ext) = "txt"

\* os.path.splitext(f)[0] + ".txt" and os.path.splitext(f)[0] + ".pdf"
TxtName(f) == Name(f.base, "txt")

PdfName(f) == Name(f.base, "pdf")

\* ----------------------------------------------------------- PDF contents
\* A PDF is known by the page texts its text layer holds and the page texts
\* optical recognition reads from it.  A file that is no PDF holds "BIN".
Pad == [i \in 1..MinTextLen |-> "x"]

PdfIds == {"P0", "P1", "P2", "P3"}

\* page.extract_text() of each page (pdfplumber); <<>> for a scanned PDF
LayerPages(pdf) ==
    CASE pdf = "P1" -> <<Pad, <<"I","n","v"," ","#","1","\n">> >>
      [] pdf = "P2" -> <<>>
      [] pdf = "P3" -> << Pad \o <<"i","n","v","#","2">> >>
      [] OTHER -> << <<" ">> \o SubSeq(Pad, 1, MinTextLen - 1) \o <<"\n">> >>

\* pytesseract.image_to_string(p) of each page
OcrPages(pdf) ==
    CASE pdf = "P2" -> << <<" ">> \o Pad \o <<"\n">>, <<"i","n","v","#","1","\n">> >>
      [] pdf = "P0" -> << <<"x", "\n">> >>
      [] OTHER -> <<>>

StripEach(pages) == [i \in 1..Len(pages) |-> strip(pages[i])]

\* extract_text_from_pdf: the text, or <<>> when neither way yields MinTextLen
\* characters
extract_text_from_pdf(pdf) ==
    LET layer == strip(join(LayerPages(pdf)))
        ocr == join(StripEach(OcrPages(pdf)))
    IN  IF Len(layer) >= MinTextLen THEN layer
        ELSE IF Len(ocr) >= MinTextLen THEN ocr
        ELSE <<>>

\* The text the repository holds under its n-th name before the run: an invoice
\* the batch lacks (n even), an invoice of the batch in another layout (n odd).
RepoText(n) ==
    IF n % 2 = 0
    THEN Pad \o <<"i","n","v","#","3">>
    ELSE Pad \o <<"\n", "I","N","V","#","1">>

\* ---------------------------------------------------------------- variables
VARIABLES
    inA, inB,        \* fingerprint specification: the two texts
    outA, outB,      \* ... and their fingerprints: <<>> until computed, then <<h>>
    caseSensitive,   \* whether the file system tells "c.PDF" from "c.pdf"
    src,             \* source tree: <<dir, name>> -> contents (dir 0 is the root)
    main,            \* MAIN_PDF_FOLDER
    text,            \* EXTRACTED_TEXT_FOLDER
    exc,             \* EXCEPTION_FOLDER
    uniq,            \* UNIQUE_INVOICES_FOLDER
    dup,             \* DUPLICATES_INVOICES_FOLDER
    repo,            \* the repository folder
    pc,              \* the stage main() is in
    todo,            \* what the running loop has still to visit
    pdf_count,       \* copy_pdfs_to_main_folder's counters
    other_count,
    seen_hashes,     \* deduplicate_text_files: fingerprint -> first file
    repo_hashes,     \* cross_compare_with_repository: the repository's fingerprints
    stamp,           \* update_repository: the timestamp token (0: not taken yet)
    reruns,          \* how often deduplicate_text_files is still called again
    origin,          \* history: text file -> the PDF it was extracted from
    order,           \* history: the [name, h] deduplicate_text_files visited, in order
    filed,           \* history: the repository names update_repository filed, in order
    repo0            \* history: the repository before the run

VARIABLES
    failed,          \* history: the source files whose copy raised an error
    variant,         \* reporter specification: "cli" (DF_Final) or "gui" (PyQt_Final)
    bucket,          \* ... the folder asked for: <<>> if missing, else <<dir>>
    report,          \* ... <<>> until the call is over, then <<outcome>>
    stop_event,      \* GUI: threading.Event, TRUE when set
    start_btn,       \* GUI: whether the Start, Stop and Reset buttons are enabled
    stop_btn,
    reset_btn,
    edits,           \* GUI: whether source_edit and repo_edit name valid folders
    worker_thread,   \* GUI: "none", or the latest thread "alive" or "ended"
    workers,         \* GUI: how many threads are inside run_full_pipeline
    signals,         \* GUI: pipeline_finished signals emitted and not yet handled
    runs,            \* GUI history: how each finished run ended, in order
    cur              \* GUI: <<f>> while extract_texts handles f, else <<>>

VARIABLES
    queue,           \* GUI_Logger: self.queue, the lines put and not yet taken
    console,         \* GUI_Logger: the lines appended to the text widget, in order
    timer,           \* GUI_Logger: whether the QTimer is running
    flushing,        \* GUI_Logger: whether the GUI thread is inside _periodic_flush
    logged,          \* GUI_Logger: how many lines log has put
    waiting          \* GUI_Logger: the threads blocked in a queue operation

hvars == <<inA, inB, outA, outB>>

lvars == <<queue, console, timer, flushing, logged, waiting>>

rvars == <<variant, bucket, report>>

gvars ==
    <<stop_event, start_btn, stop_btn, reset_btn, edits, worker_thread, workers,
      signals, runs, cur>>

\* what the stages of the command-line run leave alone
xvars == <<failed, rvars, gvars, lvars>>

dirs == <<main, text, exc, uniq, dup, repo>>

pvars ==
    <<caseSensitive, src, main, text, exc, uniq, dup, repo, pc, todo, pdf_count,
      other_count, seen_hashes, repo_hashes, stamp, reruns, origin, order, filed,
      repo0, xvars>>

\* the folders and the pipeline's data, without its position
fsvars ==
    <<caseSensitive, src, dirs, pdf_count, other_count, seen_hashes, repo_hashes,
      stamp, reruns, origin, order, filed, repo0>>

vars == <<hvars, pvars>>

\* ------------------------------------------------------------ file system
EmptyDir == [k \in {} |-> "BIN"]

\* the key a directory knows a name by
Key(f) == IF caseSensitive THEN f ELSE Name(f.base, LowerExt(f.ext))

Stored(dir, f) == {k \in DOMAIN dir : Key(k) = Key(f)}

\* os.path.exists
exists(dir, f) == Stored(dir, f) # {}

\* open(path).read()
read(dir, f) == dir[CHOOSE k \in Stored(dir, f) : TRUE]

\* writing path: an existing file keeps its stored name
write(dir, f, c) ==
    IF exists(dir, f)
    THEN [k \in DOMAIN dir |-> IF Key(k) = Key(f) THEN c ELSE dir[k]]
    ELSE [k \in DOMAIN dir \cup {f} |-> IF k = f THEN c ELSE dir[k]]

\* a removal that leaves the file where it is
keep(dir, f) == dir

\* os.remove, and the source side of shutil.move
remove(dir, f) == [k \in DOMAIN dir \ Stored(dir, f) |-> dir[k]]

\* os.listdir filtered by extension
PdfFiles(dir) == {f \in DOMAIN dir : IsPdf(f)}

TxtFiles(dir) == {f \in DOMAIN dir : IsTxt(f)}

\* ------------------------------------------------------------------- Init
\* Source files: three PDFs in the root, one of them with an upper-case
\* extension, one PDF of the same name as a root PDF in a subfolder, and one
\* file that is no PDF.
PdfSlots ==
    { <<0, Name("a", "pdf")>>, <<0, Name("b", "pdf")>>, <<0, Name("c", "PDF")>>,
      <<1, Name("a", "pdf")>> }

OtherSlots == { <<0, Name("d", "png")>> }

\* The root's a.pdf and b.pdf are alike, so b.pdf is drawn only beside a.pdf.
SrcDomains ==
    { D \in SUBSET (PdfSlots \cup OtherSlots) :
        /\ Cardinality(D) <= MaxSrc
        /\ <<0, Name("b", "pdf")>> \in D => <<0, Name("a", "pdf")>> \in D }

SrcTrees ==
    UNION { { t \in [D -> PdfIds \cup {"BIN"}] :
                \A slot \in D : (t[slot] = "BIN") <=> (slot \in OtherSlots) } :
            D \in SrcDomains }

\* INVC_<stamp>.txt (n = 0), INVC_<stamp>_<n>.txt (n > 0)
RepoName(s, n) == [stamp |-> s, n |-> n]

\* the clock's readings: 1 is the timestamp of the repository's entries
Stamps == {1, 2}

Repositories ==
    { [k \in D |-> RepoText(k.n)] : D \in SUBSET {RepoName(1, n) : n \in 0..(MaxRepo - 1)} }

HashIdle ==
    /\ inA = <<>>
    /\ inB = <<>>
    /\ outA = <<>>
    /\ outB = <<>>

\* no call of the inventory reporter is under way
ReportIdle ==
    /\ variant = "cli"
    /\ bucket = <<>>
    /\ report = <<>>

\* the command-line program: no window, no worker thread, no stop_event
GuiIdle ==
    /\ stop_event = FALSE
    /\ start_btn = FALSE
    /\ stop_btn = FALSE
    /\ reset_btn = FALSE
    /\ edits = FALSE
    /\ worker_thread = "none"
    /\ workers = 0
    /\ signals = 0
    /\ runs = <<>>
    /\ cur = <<>>

\* no GUI_Logger: nothing is queued or displayed
LogIdle ==
    /\ queue = <<>>
    /\ console = <<>>
    /\ timer = FALSE
    /\ flushing = FALSE
    /\ logged = 0
    /\ waiting = {}

Init ==
    /\ HashIdle
    /\ ReportIdle
    /\ GuiIdle
    /\ LogIdle
    /\ failed = {}
    /\ caseSensitive \in BOOLEAN
    /\ src \in SrcTrees
    /\ main = EmptyDir
    /\ text = EmptyDir
    /\ exc = EmptyDir
    /\ uniq = EmptyDir
    /\ dup = EmptyDir
    /\ repo \in Repositories
    /\ repo0 = repo
    /\ pc = "start"
    /\ todo = {}
    /\ pdf_count = 0
    /\ other_count = 0
    /\ seen_hashes = EmptyDir
    /\ repo_hashes = {}
    /\ stamp = 0
    /\ reruns = 0
    /\ origin = EmptyDir
    /\ order = <<>>
    /\ filed = <<>>

\* --------------------------------------------------------- stage 1: intake
\* copy_pdfs_to_main_folder: the walk lists every file of the tree
copy_pdfs_to_main_folder_begin ==
    /\ pc = "start"
    /\ pc' = "intake"
    /\ todo' = DOMAIN src
    /\ pdf_count' = 0
    /\ other_count' = 0
    /\ UNCHANGED <<hvars, xvars, caseSensitive, src, dirs, seen_hashes, repo_hashes, stamp,
                   reruns, origin, order, filed, repo0>>

\* process_file(src_path, filename); os.walk visits the root before its subfolders
process_file ==
    /\ pc = "intake"
    /\ \E slot \in todo :
        /\ \A other \in todo : slot[1] <= other[1]
        /\ LET filename == slot[2] IN
           IF IsPdf(filename)
           THEN /\ main' = write(main, filename, src[slot])
                /\ pdf_count' = pdf_count + 1
                /\ UNCHANGED <<exc, other_count>>
           ELSE /\ exc' = write(exc, filename, src[slot])
                /\ other_count' = other_count + 1
                /\ UNCHANGED <<main, pdf_count>>
        /\ todo' = todo \ {slot}
    /\ UNCHANGED <<hvars, xvars, caseSensitive, src, text, uniq, dup, repo, pc, seen_hashes,
                   repo_hashes, stamp, reruns, origin, order, filed, repo0>>

\* shutil.copy2 raises on one file (the source cannot be read): the exception
\* leaves both loops for the except clause, which logs it; the walk is over
process_file_error ==
    /\ pc = "intake"
    /\ \E slot \in todo :
        /\ \A other \in todo : slot[1] <= other[1]
        /\ failed' = failed \cup {slot}
    /\ todo' = {}
    /\ UNCHANGED <<hvars, rvars, gvars, lvars, caseSensitive, src, dirs, pc, pdf_count,
                   other_count, seen_hashes, repo_hashes, stamp, reruns, origin, order,
                   filed, repo0>>

\* ----------------------------------------------------- stage 2: extraction
\* an extraction that starts while the walk still has files to copy
extract_texts_begin_early ==
    /\ pc = "intake"
    /\ pc' = "extract"
    /\ todo' = DOMAIN main
    /\ UNCHANGED <<hvars, xvars, caseSensitive, src, dirs, pdf_count, other_count,
                   seen_hashes, repo_hashes, stamp, reruns, origin, order, filed, repo0>>

extract_texts_begin ==
    /\ pc = "intake"
    /\ todo = {}
    /\ pc' = "extract"
    /\ todo' = DOMAIN main
    /\ UNCHANGED <<hvars, xvars, caseSensitive, src, dirs, pdf_count, other_count,
                   seen_hashes, repo_hashes, stamp, reruns, origin, order, filed, repo0>>

\* one turn of extract_texts' loop
extract_texts_step ==
    /\ pc = "extract"
    /\ \E f \in todo :
        /\ todo' = todo \ {f}
        /\ IF ~IsPdf(f)
           THEN UNCHANGED <<main, text, exc, origin>>
           ELSE LET txt == extract_text_from_pdf(read(main, f)) IN
                IF txt # <<>>
                THEN /\ text' = write(text, TxtName(f), txt)
                     /\ origin' = [k \in DOMAIN origin \cup {TxtName(f)} |->
                                     IF k = TxtName(f) THEN f ELSE origin[k]]
                     /\ UNCHANGED <<main, exc>>
                ELSE /\ exc' = write(exc, f, read(main, f))
                     /\ main' = remove(main, f)
                     /\ UNCHANGED <<text, origin>>
    /\ UNCHANGED <<hvars, xvars, caseSensitive, src, uniq, dup, repo, pc, pdf_count,
                   other_count, seen_hashes, repo_hashes, stamp, reruns, order, filed,
                   repo0>>

\* --------------------------------------------------- stage 3: local dedup
\* a seen_hashes that outlives the call (a module-level dictionary)
kept_seen_hashes == seen_hashes

\* seen_hashes = {}
new_seen_hashes == EmptyDir

deduplicate_text_files_begin ==
    /\ pc = "extract"
    /\ todo = {}
    /\ pc' = "dedup"
    /\ todo' = TxtFiles(text)
    /\ seen_hashes' = new_seen_hashes
    /\ order' = <<>>
    /\ UNCHANGED <<hvars, xvars, caseSensitive, src, dirs, pdf_count, other_count,
                   repo_hashes, stamp, reruns, origin, filed, repo0>>

\* a dedup turn that deletes the duplicate text only together with its PDF
deduplicate_text_files_step_with_pdf ==
    /\ pc = "dedup"
    /\ \E f \in todo :
        LET h == sha256_hash(read(text, f))
            pdf_name == PdfName(f)
        IN  /\ todo' = todo \ {f}
            /\ order' = Append(order, [name |-> f, h |-> h])
            /\ IF h \in DOMAIN seen_hashes
               THEN /\ IF exists(main, pdf_name)
                       THEN /\ text' = remove(text, f)
                            /\ dup' = write(dup, pdf_name, read(main, pdf_name))
                            /\ main' = remove(main, pdf_name)
                       ELSE UNCHANGED <<text, main, dup>>
                    /\ UNCHANGED seen_hashes
               ELSE /\ seen_hashes' = [k \in DOMAIN seen_hashes \cup {h} |->
                                         IF k = h THEN f ELSE seen_hashes[k]]
                    /\ UNCHANGED <<text, main, dup>>
    /\ UNCHANGED <<hvars, xvars, caseSensitive, src, exc, uniq, repo, pc, pdf_count,
                   other_count, repo_hashes, stamp, reruns, origin, filed, repo0>>

\* one turn of deduplicate_text_files' loop
deduplicate_text_files_step ==
    /\ pc = "dedup"
    /\ \E f \in todo :
        LET h == sha256_hash(read(text, f))
            pdf_name == PdfName(f)
        IN  /\ todo' = todo \ {f}
            /\ order' = Append(order, [name |-> f, h |-> h])
            /\ IF h \in DOMAIN seen_hashes
               THEN /\ text' = remove(text, f)
                    /\ IF exists(main, pdf_name)
                       THEN /\ dup' = write(dup, pdf_name, read(main, pdf_name))
                            /\ main' = remove(main, pdf_name)
                       ELSE UNCHANGED <<main, dup>>
                    /\ UNCHANGED seen_hashes
               ELSE /\ seen_hashes' = [k \in DOMAIN seen_hashes \cup {h} |->
                                         IF k = h THEN f ELSE seen_hashes[k]]
                    /\ UNCHANGED <<text, main, dup>>
    /\ UNCHANGED <<hvars, xvars, caseSensitive, src, exc, uniq, repo, pc, pdf_count,
                   other_count, repo_hashes, stamp, reruns, origin, filed, repo0>>

\* deduplicate_text_files called once more on what the first call left
deduplicate_text_files_again ==
    /\ pc = "dedup"
    /\ todo = {}
    /\ reruns > 0
    /\ reruns' = reruns - 1
    /\ todo' = TxtFiles(text)
    /\ seen_hashes' = new_seen_hashes
    /\ order' = <<>>
    /\ UNCHANGED <<hvars, xvars, caseSensitive, src, dirs, pc, pdf_count, other_count,
                   repo_hashes, stamp, origin, filed, repo0>>

\* ------------------------------------------- stage 4: repository comparison
\* cross_compare_with_repository: repo_hashes = set(), the repository is listed
cross_compare_begin ==
    /\ pc = "dedup"
    /\ todo = {}
    /\ reruns = 0
    /\ pc' = "scan"
    /\ repo_hashes' = {}
    /\ todo' = DOMAIN repo
    /\ UNCHANGED <<hvars, xvars, caseSensitive, src, dirs, pdf_count, other_count,
                   seen_hashes, stamp, reruns, origin, order, filed, repo0>>

\* one repository file is read and fingerprinted
cross_compare_scan ==
    /\ pc = "scan"
    /\ \E f \in todo :
        /\ todo' = todo \ {f}
        /\ repo_hashes' = repo_hashes \cup {sha256_hash(repo[f])}
    /\ UNCHANGED <<hvars, xvars, caseSensitive, src, dirs, pc, pdf_count, other_count,
                   seen_hashes, stamp, reruns, origin, order, filed, repo0>>

\* a read failure that ends the loop over the repository
cross_compare_scan_error_fatal ==
    /\ pc = "scan"
    /\ \E f \in todo : failed' = failed \cup {f}
    /\ todo' = {}
    /\ UNCHANGED <<hvars, rvars, gvars, lvars, caseSensitive, src, dirs, pc, pdf_count,
                   other_count, seen_hashes, repo_hashes, stamp, reruns, origin, order,
                   filed, repo0>>

\* open() or read() raises on one repository file: the except clause inside the
\* loop logs it and the loop goes on
cross_compare_scan_error ==
    /\ pc = "scan"
    /\ \E f \in todo :
        /\ todo' = todo \ {f}
        /\ failed' = failed \cup {f}
    /\ UNCHANGED <<hvars, rvars, gvars, lvars, caseSensitive, src, dirs, pc, pdf_count,
                   other_count, seen_hashes, repo_hashes, stamp, reruns, origin, order,
                   filed, repo0>>

\* extracted_files = [...]: the batch's text files are listed
cross_compare_list ==
    /\ pc = "scan"
    /\ todo = {}
    /\ pc' = "compare"
    /\ todo' = TxtFiles(text)
    /\ UNCHANGED <<hvars, xvars, caseSensitive, src, dirs, pdf_count, other_count,
                   seen_hashes, repo_hashes, stamp, reruns, origin, order, filed, repo0>>

\* a comparison that also remembers every fingerprint it classified as unique
cross_compare_step_live ==
    /\ pc = "compare"
    /\ \E f \in todo :
        LET h == sha256_hash(read(text, f))
            pdf_name == PdfName(f)
        IN  /\ todo' = todo \ {f}
            /\ IF h \in repo_hashes
               THEN /\ IF exists(main, pdf_name)
                       THEN /\ dup' = write(dup, pdf_name, read(main, pdf_name))
                            /\ main' = remove(main, pdf_name)
                       ELSE UNCHANGED <<main, dup>>
                    /\ text' = remove(text, f)
                    /\ UNCHANGED <<uniq, repo_hashes>>
               ELSE /\ IF exists(main, pdf_name)
                       THEN /\ uniq' = write(uniq, pdf_name, read(main, pdf_name))
                            /\ main' = remove(main, pdf_name)
                       ELSE UNCHANGED <<main, uniq>>
                    /\ repo_hashes' = repo_hashes \cup {h}
                    /\ UNCHANGED <<text, dup>>
    /\ UNCHANGED <<hvars, xvars, caseSensitive, src, exc, repo, pc, pdf_count, other_count,
                   seen_hashes, stamp, reruns, origin, order, filed, repo0>>

\* a comparison that leaves the text of a repository duplicate in place
cross_compare_step_keep_text ==
    /\ pc = "compare"
    /\ \E f \in todo :
        LET h == sha256_hash(read(text, f))
            pdf_name == PdfName(f)
        IN  /\ todo' = todo \ {f}
            /\ IF h \in repo_hashes
               THEN /\ IF exists(main, pdf_name)
                       THEN /\ dup' = write(dup, pdf_name, read(main, pdf_name))
                            /\ main' = remove(main, pdf_name)
                       ELSE UNCHANGED <<main, dup>>
                    /\ UNCHANGED <<text, uniq>>
               ELSE /\ IF exists(main, pdf_name)
                       THEN /\ uniq' = write(uniq, pdf_name, read(main, pdf_name))
                            /\ main' = remove(main, pdf_name)
                       ELSE UNCHANGED <<main, uniq>>
                    /\ UNCHANGED <<text, dup>>
    /\ UNCHANGED <<hvars, xvars, caseSensitive, src, exc, repo, pc, pdf_count, other_count,
                   seen_hashes, repo_hashes, stamp, reruns, origin, order, filed, repo0>>

\* one turn of the loop over the batch's text files
cross_compare_step ==
    /\ pc = "compare"
    /\ \E f \in todo :
        LET h == sha256_hash(read(text, f))
            pdf_name == PdfName(f)
        IN  /\ todo' = todo \ {f}
            /\ IF h \in repo_hashes
               THEN /\ IF exists(main, pdf_name)
                       THEN /\ dup' = write(dup, pdf_name, read(main, pdf_name))
                            /\ main' = remove(main, pdf_name)
                       ELSE UNCHANGED <<main, dup>>
                    /\ text' = remove(text, f)
                    /\ UNCHANGED uniq
               ELSE /\ IF exists(main, pdf_name)
                       THEN /\ uniq' = write(uniq, pdf_name, read(main, pdf_name))
                            /\ main' = remove(main, pdf_name)
                       ELSE UNCHANGED <<main, uniq>>
                    /\ UNCHANGED <<text, dup>>
    /\ UNCHANGED <<hvars, xvars, caseSensitive, src, exc, repo, pc, pdf_count, other_count,
                   seen_hashes, repo_hashes, stamp, reruns, origin, order, filed, repo0>>

\* for f in os.listdir(EXCEPTION_FOLDER): the Exception folder is listed
cross_compare_exc_list ==
    /\ pc = "compare"
    /\ todo = {}
    /\ pc' = "copyexc"
    /\ todo' = DOMAIN exc
    /\ UNCHANGED <<hvars, xvars, caseSensitive, src, dirs, pdf_count, other_count,
                   seen_hashes, repo_hashes, stamp, reruns, origin, order, filed, repo0>>

\* which Exception files are copied to Unique: any file at all
copies_any_file(f) == TRUE

\* if f.lower().endswith('.pdf')
copies_exception_file(f) == IsPdf(f)

\* an exception loop that moves the file instead of copying it
cross_compare_exc_step_move ==
    /\ pc = "copyexc"
    /\ \E f \in todo :
        /\ todo' = todo \ {f}
        /\ IF copies_exception_file(f)
           THEN /\ uniq' = write(uniq, f, read(exc, f))
                /\ exc' = remove(exc, f)
           ELSE UNCHANGED <<uniq, exc>>
    /\ UNCHANGED <<hvars, xvars, caseSensitive, src, main, text, dup, repo, pc,
                   pdf_count, other_count, seen_hashes, repo_hashes, stamp, reruns,
                   origin, order, filed, repo0>>

\* one turn of the loop over the Exception folder
cross_compare_exc_step ==
    /\ pc = "copyexc"
    /\ \E f \in todo :
        /\ todo' = todo \ {f}
        /\ IF copies_exception_file(f)
           THEN uniq' = write(uniq, f, read(exc, f))
           ELSE UNCHANGED uniq
    /\ UNCHANGED <<hvars, xvars, caseSensitive, src, main, text, exc, dup, repo, pc,
                   pdf_count, other_count, seen_hashes, repo_hashes, stamp, reruns,
                   origin, order, filed, repo0>>

\* ----------------------------------------------- stage 5: repository update
\* update_repository: now = datetime.now(), the text folder is listed
update_repository_begin ==
    /\ pc = "copyexc"
    /\ todo = {}
    /\ pc' = "update"
    /\ stamp' \in Stamps
    /\ todo' = DOMAIN text
    /\ UNCHANGED <<hvars, xvars, caseSensitive, src, dirs, pdf_count, other_count,
                   seen_hashes, repo_hashes, reruns, origin, order, filed, repo0>>

\* while os.path.exists(new_name): new_name = base_<count>; count += 1
RECURSIVE probe(_, _, _, _)
probe(dir, s, n, count) ==
    IF RepoName(s, n) \in DOMAIN dir
    THEN probe(dir, s, count, count + 1)
    ELSE RepoName(s, n)

\* a single retry: the suffix _1 whenever the base name is taken
resolve_name_once(dir, s) ==
    IF RepoName(s, 0) \in DOMAIN dir THEN RepoName(s, 1) ELSE RepoName(s, 0)

\* new_name = base_name; count = 1; the probing loop
resolve_name(dir, s) == probe(dir, s, 0, 1)

\* an updater that copies the text into the repository and leaves the original
update_repository_step_copy ==
    /\ pc = "update"
    /\ \E f \in todo :
        /\ todo' = todo \ {f}
        /\ IF IsTxt(f)
           THEN LET new_name == resolve_name(repo, stamp) IN
                /\ repo' = [k \in DOMAIN repo \cup {new_name} |->
                              IF k = new_name THEN read(text, f) ELSE repo[k]]
                /\ filed' = Append(filed, new_name)
           ELSE UNCHANGED <<repo, filed>>
    /\ UNCHANGED <<hvars, xvars, caseSensitive, src, main, text, exc, uniq, dup, pc,
                   pdf_count, other_count, seen_hashes, repo_hashes, stamp, reruns,
                   origin, order, repo0>>

\* one turn of update_repository's loop
update_repository_step ==
    /\ pc = "update"
    /\ \E f \in todo :
        /\ todo' = todo \ {f}
        /\ IF IsTxt(f)
           THEN LET new_name == resolve_name(repo, stamp) IN
                /\ repo' = [k \in DOMAIN repo \cup {new_name} |->
                              IF k = new_name THEN read(text, f) ELSE repo[k]]
                /\ text' = remove(text, f)
                /\ filed' = Append(filed, new_name)
           ELSE UNCHANGED <<repo, text, filed>>
    /\ UNCHANGED <<hvars, xvars, caseSensitive, src, main, exc, uniq, dup, pc, pdf_count,
                   other_count, seen_hashes, repo_hashes, stamp, reruns, origin, order,
                   repo0>>

\* shutil.move raises on one text and the except clause logs it. The move is
\* os.rename, or, if the repository is on another file system, a copy followed
\* by the removal of the original: the failure leaves nothing behind ("rename")
\* or the copy in the repository and the original in place ("unlink").
update_repository_step_error ==
    /\ pc = "update"
    /\ \E f \in todo :
        /\ IsTxt(f)
        /\ todo' = todo \ {f}
        /\ failed' = failed \cup {f}
        /\ \E outcome \in {"rename", "unlink"} :
             IF outcome = "unlink"
             THEN LET new_name == resolve_name(repo, stamp) IN
                  repo' = [k \in DOMAIN repo \cup {new_name} |->
                             IF k = new_name THEN read(text, f) ELSE repo[k]]
             ELSE UNCHANGED repo
    /\ UNCHANGED <<hvars, rvars, gvars, lvars, caseSensitive, src, main, text, exc, uniq, dup,
                   pc, pdf_count, other_count, seen_hashes, repo_hashes, stamp, reruns,
                   origin, order, filed, repo0>>

\* --------------------------------------------------------- stage 6: cleanup
\* cleanup_main_pdf_folder: leftover_files = [...]
cleanup_main_pdf_folder_begin ==
    /\ pc = "update"
    /\ todo = {}
    /\ pc' = "cleanup"
    /\ todo' = PdfFiles(main)
    /\ UNCHANGED <<hvars, xvars, caseSensitive, src, dirs, pdf_count, other_count,
                   seen_hashes, repo_hashes, stamp, reruns, origin, order, filed, repo0>>

\* a cleanup that files the leftover PDF under Duplicates
cleanup_main_pdf_folder_step_dup ==
    /\ pc = "cleanup"
    /\ \E f \in todo :
        /\ todo' = todo \ {f}
        /\ dup' = write(dup, f, read(main, f))
        /\ main' = remove(main, f)
    /\ UNCHANGED <<hvars, xvars, caseSensitive, src, text, uniq, exc, repo, pc,
                   pdf_count, other_count, seen_hashes, repo_hashes, stamp, reruns,
                   origin, order, filed, repo0>>

\* one leftover PDF is moved to the Exception folder
cleanup_main_pdf_folder_step ==
    /\ pc = "cleanup"
    /\ \E f \in todo :
        /\ todo' = todo \ {f}
        /\ exc' = write(exc, f, read(main, f))
        /\ main' = remove(main, f)
    /\ UNCHANGED <<hvars, xvars, caseSensitive, src, text, uniq, dup, repo, pc, pdf_count,
                   other_count, seen_hashes, repo_hashes, stamp, reruns, origin, order,
                   filed, repo0>>

\* main() has run its six stages
main_done ==
    /\ pc = "cleanup"
    /\ todo = {}
    /\ pc' = "done"
    /\ UNCHANGED <<hvars, xvars, caseSensitive, src, dirs, todo, pdf_count, other_count,
                   seen_hashes, repo_hashes, stamp, reruns, origin, order, filed, repo0>>

Next ==
    \/ copy_pdfs_to_main_folder_begin
    \/ process_file
    \/ extract_texts_begin
    \/ extract_texts_step
    \/ deduplicate_text_files_begin
    \/ deduplicate_text_files_step
    \/ cross_compare_begin
    \/ cross_compare_scan
    \/ cross_compare_list
    \/ cross_compare_step
    \/ cross_compare_exc_list
    \/ cross_compare_exc_step
    \/ update_repository_begin
    \/ update_repository_step
    \/ cleanup_main_pdf_folder_begin
    \/ cleanup_main_pdf_folder_step
    \/ main_done

Spec == Init /\ [][Next]_vars

\* main()'s stages in the order it calls them; the comparison stage is "scan",
\* "compare" and "copyexc", the three loops of cross_compare_with_repository
StageOrder ==
    <<"start", "intake", "extract", "dedup", "scan", "compare", "copyexc", "update",
      "cleanup", "done">>

Stages == {StageOrder[i] : i \in 1..Len(StageOrder)}

\* a turn of the running loop: one item leaves the work list
LoopTurn ==
    /\ todo # {}
    /\ \E f \in todo : todo' = todo \ {f}

\* the running loop is over: main() goes on to its next statement
StageEnd ==
    /\ todo = {}
    /\ pc # "done"
    /\ pc' \in Stages \ {pc}

\* main() is one thread that nothing suspends: a loop with items left takes its
\* next turn, and after the last turn the next stage is called
SpecLive == Spec /\ WF_todo(LoopTurn) /\ WF_pc(StageEnd)

\* ------------------------------------------------- repeated run specification
\* the program is started again on the same source and repository folders when
\* a run is over; the working folders are as the run before left them
main_again ==
    /\ pc = "done"
    /\ Len(runs) + 1 < MaxRuns
    /\ runs' = Append(runs, "completed")
    /\ pc' = "start"
    /\ UNCHANGED <<hvars, rvars, lvars, failed, fsvars, todo, stop_event, start_btn,
                   stop_btn, reset_btn, edits, worker_thread, workers, signals, cur>>

NextTwice ==
    \/ Next
    \/ main_again

SpecTwice == Init /\ [][NextTwice]_vars

\* ------------------------------------------ clean repository specification
\* the runs that start on a repository whose texts have pairwise distinct
\* fingerprints: as many fingerprints as texts
InitClean ==
    /\ Init
    /\ Cardinality({sha256_hash(repo[k]) : k \in DOMAIN repo}) = Cardinality(DOMAIN repo)

SpecClean == InitClean /\ [][Next]_vars

\* ------------------------------------- intake with copy errors specification
\* copy_pdfs_to_main_folder over a source tree of which any file may fail to
\* copy
NextIntake ==
    \/ copy_pdfs_to_main_folder_begin
    \/ process_file
    \/ process_file_error

SpecIntake == Init /\ [][NextIntake]_vars

\* --------------------------------- update with move errors specification
\* the run with an update_repository in which any move may fail
NextUpdate ==
    \/ Next
    \/ update_repository_step_error

SpecUpdate == Init /\ [][NextUpdate]_vars

\* ------------------------------ comparison with read errors specification
\* the run with a cross_compare_with_repository in which the read of any
\* repository file may fail
NextScan ==
    \/ Next
    \/ cross_compare_scan_error

\* ... over the batches of up to two PDFs, one with an upper-case extension
InitScan ==
    /\ Init
    /\ DOMAIN src \subseteq {<<0, Name("a", "pdf")>>, <<0, Name("c", "PDF")>>}

SpecScan == InitScan /\ [][NextScan]_vars

\* ------------------------------------------------ fingerprint specification
Alphabet == {"A", "b", " ", "\n"}

RECURSIVE TextsUpTo(_)
TextsUpTo(n) ==
    IF n = 0 THEN {<<>>}
    ELSE LET shorter == TextsUpTo(n - 1)
         IN  shorter \cup {Append(t, c) : t \in shorter, c \in Alphabet}

ExInvoiceSpaced == <<"I","n","v","o","i","c","e"," "," ","#","1","2","3">>

ExInvoicePlain == <<"i","n","v","o","i","c","e","#","1","2","3">>

ExFooBar == <<"f","o","o"," ","b","a","r">>

ExFoobar == <<"f","o","o","b","a","r">>

HashInputs ==
    TextsUpTo(MaxLen) \cup {ExInvoiceSpaced, ExInvoicePlain, ExFooBar, ExFoobar}

\* the pipeline has not been started
PipelineIdle ==
    /\ caseSensitive = TRUE
    /\ src = EmptyDir
    /\ main = EmptyDir
    /\ text = EmptyDir
    /\ exc = EmptyDir
    /\ uniq = EmptyDir
    /\ dup = EmptyDir
    /\ repo = EmptyDir
    /\ repo0 = EmptyDir
    /\ pc = "idle"
    /\ todo = {}
    /\ pdf_count = 0
    /\ other_count = 0
    /\ seen_hashes = EmptyDir
    /\ repo_hashes = {}
    /\ stamp = 0
    /\ reruns = 0
    /\ origin = EmptyDir
    /\ order = <<>>
    /\ filed = <<>>
    /\ failed = {}

InitHash ==
    /\ inA \in HashInputs
    /\ inB \in HashInputs
    /\ outA = <<>>
    /\ outB = <<>>
    /\ PipelineIdle
    /\ ReportIdle
    /\ GuiIdle
    /\ LogIdle

HashA ==
    /\ outA = <<>>
    /\ outA' = <<sha256_hash(inA)>>
    /\ UNCHANGED <<inA, inB, outB, pvars>>

HashB ==
    /\ outB = <<>>
    /\ outB' = <<sha256_hash(inB)>>
    /\ UNCHANGED <<inA, inB, outA, pvars>>

NextHash == HashA \/ HashB

SpecHash == InitHash /\ [][NextHash]_vars

\* ------------------------------------------------ local dedup specification
\* deduplicate_text_files called twice on a text folder and a staging folder
\* that earlier runs may have left in any state.
DedupTexts == {extract_text_from_pdf(p) : p \in {"P1", "P2", "P3"}}

TextFolders ==
    UNION { [D -> DedupTexts] :
            D \in SUBSET {Name("a", "txt"), Name("b", "txt"), Name("c", "txt")} }

StagingFolders ==
    { [k \in D |-> "P1"] :
      D \in SUBSET {Name("a", "pdf"), Name("b", "pdf"), Name("c", "PDF")} }

InitDedup ==
    /\ HashIdle
    /\ ReportIdle
    /\ GuiIdle
    /\ LogIdle
    /\ failed = {}
    /\ caseSensitive \in BOOLEAN
    /\ src = EmptyDir
    /\ main \in StagingFolders
    /\ text \in TextFolders
    /\ exc = EmptyDir
    /\ uniq = EmptyDir
    /\ dup = EmptyDir
    /\ repo = EmptyDir
    /\ repo0 = EmptyDir
    /\ pc = "extract"
    /\ todo = {}
    /\ pdf_count = 0
    /\ other_count = 0
    /\ seen_hashes = EmptyDir
    /\ repo_hashes = {}
    /\ stamp = 0
    /\ reruns = 1
    /\ origin = EmptyDir
    /\ order = <<>>
    /\ filed = <<>>

NextDedup ==
    \/ deduplicate_text_files_begin
    \/ deduplicate_text_files_step
    \/ deduplicate_text_files_again

SpecDedup == InitDedup /\ [][NextDedup]_vars

\* ------------------------------------------- inventory reporter specification
\* a frame's rows: one per file of the folder (os.listdir, os.path.isfile)
Rows(dir) == {[Filename |-> f] : f \in DOMAIN dir}

\* DF_Final.list_files_as_dataframe: os.listdir of a missing folder raises
list_files_cli(b) ==
    IF b = <<>>
    THEN [raised |-> "FileNotFoundError", rows |-> {}]
    ELSE [raised |-> "", rows |-> Rows(b[1])]

\* InvoicePipeline.list_files_as_dataframe: if not os.path.exists(folder_path)
list_files_gui(b) ==
    IF b = <<>>
    THEN [raised |-> "", rows |-> {}]
    ELSE [raised |-> "", rows |-> Rows(b[1])]

ReportFolders ==
    { [k \in D |-> "P1"] :
      D \in SUBSET {Name("a", "pdf"), Name("b", "pdf"), Name("c", "PDF"),
                    Name("d", "png"), Name("a", "txt"), Name("e", "pdf")} }

InitReport ==
    /\ HashIdle
    /\ PipelineIdle
    /\ GuiIdle
    /\ LogIdle
    /\ variant \in {"cli", "gui"}
    /\ bucket \in {<<>>} \cup {<<d>> : d \in ReportFolders}
    /\ report = <<>>

list_files_as_dataframe ==
    /\ report = <<>>
    /\ report' = IF variant = "cli"
                 THEN <<list_files_cli(bucket)>>
                 ELSE <<list_files_gui(bucket)>>
    /\ UNCHANGED <<hvars, variant, bucket, failed, gvars, lvars, caseSensitive, src, dirs, pc,
                   todo, pdf_count, other_count, seen_hashes, repo_hashes, stamp,
                   reruns, origin, order, filed, repo0>>

NextReport == list_files_as_dataframe

SpecReport == InitReport /\ [][NextReport]_vars

\* -------------------------------------------------------- GUI specification
\* PyQt_Final.py: the window's buttons, the worker thread that runs
\* InvoicePipeline.run_full_pipeline, and the stop_event the pipeline polls.
\* pc is "idle" while no worker is inside run_full_pipeline.

\* the source trees and repositories the user points the window at
GuiSlots == { <<0, Name("a", "pdf")>>, <<0, Name("c", "PDF")>> }

GuiSrcTrees == {t \in SrcTrees : DOMAIN t \subseteq GuiSlots}

GuiRepositories == {r \in Repositories : DOMAIN r \subseteq {RepoName(1, 1)}}

\* InvoiceApp.__init__ and init_ui: Stop is disabled, the folder fields are empty
InitGui ==
    /\ HashIdle
    /\ ReportIdle
    /\ LogIdle
    /\ failed = {}
    /\ caseSensitive \in BOOLEAN
    /\ src \in GuiSrcTrees
    /\ main = EmptyDir
    /\ text = EmptyDir
    /\ exc = EmptyDir
    /\ uniq = EmptyDir
    /\ dup = EmptyDir
    /\ repo \in GuiRepositories
    /\ repo0 = repo
    /\ pc = "idle"
    /\ todo = {}
    /\ pdf_count = 0
    /\ other_count = 0
    /\ seen_hashes = EmptyDir
    /\ repo_hashes = {}
    /\ stamp = 0
    /\ reruns = 0
    /\ origin = EmptyDir
    /\ order = <<>>
    /\ filed = <<>>
    /\ stop_event = FALSE
    /\ start_btn = TRUE
    /\ stop_btn = FALSE
    /\ reset_btn = TRUE
    /\ edits = FALSE
    /\ worker_thread = "none"
    /\ workers = 0
    /\ signals = 0
    /\ runs = <<>>
    /\ cur = <<>>

\* browse_source and browse_repo: the user picks the two folders
browse ==
    /\ ~edits
    /\ edits' = TRUE
    /\ UNCHANGED <<hvars, rvars, lvars, failed, fsvars, pc, todo, stop_event, start_btn,
                   stop_btn, reset_btn, worker_thread, workers, signals, runs, cur>>

\* a click on Start: start_pipeline returns early unless both fields name a
\* folder; else it disables Start, clears stop_event and starts the worker
start_pipeline ==
    /\ start_btn
    /\ edits
    /\ Len(runs) + workers < MaxRuns
    /\ start_btn' = FALSE
    /\ stop_btn' = TRUE
    /\ reset_btn' = FALSE
    /\ stop_event' = FALSE
    /\ worker_thread' = "alive"
    /\ workers' = workers + 1
    /\ pc' = "start"
    /\ todo' = {}
    /\ cur' = <<>>
    /\ UNCHANGED <<hvars, rvars, lvars, failed, fsvars, edits, signals, runs>>

\* a Stop handler that gives the Start button back at once
stop_pipeline_enabling_start ==
    /\ stop_btn
    /\ ~stop_event
    /\ stop_event' = TRUE
    /\ start_btn' = TRUE
    /\ UNCHANGED <<hvars, rvars, lvars, failed, fsvars, pc, todo, stop_btn, reset_btn, edits,
                   worker_thread, workers, signals, runs, cur>>

\* a click on Stop, answered with Yes
stop_pipeline ==
    /\ stop_btn
    /\ ~stop_event
    /\ stop_event' = TRUE
    /\ UNCHANGED <<hvars, rvars, lvars, failed, fsvars, pc, todo, start_btn, stop_btn,
                   reset_btn, edits, worker_thread, workers, signals, runs, cur>>

\* a click on Reset: refused while the worker thread is alive, else the tables,
\* the console and the two folder fields are cleared
reset_ui ==
    /\ reset_btn
    /\ worker_thread # "alive"
    /\ edits
    /\ edits' = FALSE
    /\ UNCHANGED <<hvars, rvars, lvars, failed, fsvars, pc, todo, stop_event, start_btn,
                   stop_btn, reset_btn, worker_thread, workers, signals, runs, cur>>

\* _on_pipeline_finished, run by the GUI thread for a queued signal
on_pipeline_finished ==
    /\ signals > 0
    /\ signals' = signals - 1
    /\ start_btn' = TRUE
    /\ stop_btn' = FALSE
    /\ reset_btn' = TRUE
    /\ UNCHANGED <<hvars, rvars, lvars, failed, fsvars, pc, todo, stop_event, edits,
                   worker_thread, workers, runs, cur>>

\* The worker thread. InvoicePipeline's stage functions are those of DF_Final
\* with a poll of stop_event on entry and at the top of every loop turn.
gui_copy_pdfs_to_main_folder_begin == ~stop_event /\ copy_pdfs_to_main_folder_begin

gui_process_file == ~stop_event /\ process_file

gui_extract_texts_begin == ~stop_event /\ extract_texts_begin

\* extract_texts: the loop's poll, passed for the next file f
gui_extract_texts_poll ==
    /\ pc = "extract"
    /\ ~stop_event
    /\ cur = <<>>
    /\ \E f \in todo :
        /\ cur' = <<f>>
        /\ todo' = todo \ {f}
    /\ UNCHANGED <<hvars, rvars, lvars, failed, fsvars, pc, stop_event, start_btn, stop_btn,
                   reset_btn, edits, worker_thread, workers, signals, runs>>

\* ... and the rest of the turn: extract_text_from_pdf polls again and returns
\* no text if stop_event was set meanwhile
gui_extract_texts_file ==
    /\ pc = "extract"
    /\ cur # <<>>
    /\ cur' = <<>>
    /\ LET f == cur[1] IN
       IF ~IsPdf(f)
       THEN UNCHANGED <<main, text, exc, origin>>
       ELSE LET txt == IF stop_event THEN <<>>
                       ELSE extract_text_from_pdf(read(main, f))
            IN  IF txt # <<>>
                THEN /\ text' = write(text, TxtName(f), txt)
                     /\ origin' = [k \in DOMAIN origin \cup {TxtName(f)} |->
                                     IF k = TxtName(f) THEN f ELSE origin[k]]
                     /\ UNCHANGED <<main, exc>>
                ELSE /\ exc' = write(exc, f, read(main, f))
                     /\ main' = remove(main, f)
                     /\ UNCHANGED <<text, origin>>
    /\ UNCHANGED <<hvars, rvars, lvars, failed, caseSensitive, src, uniq, dup, repo, pc, todo,
                   pdf_count, other_count, seen_hashes, repo_hashes, stamp, reruns,
                   order, filed, repo0, stop_event, start_btn, stop_btn, reset_btn,
                   edits, worker_thread, workers, signals, runs>>

gui_deduplicate_text_files_begin ==
    ~stop_event /\ cur = <<>> /\ deduplicate_text_files_begin

gui_deduplicate_text_files_step == ~stop_event /\ deduplicate_text_files_step

gui_cross_compare_begin == ~stop_event /\ cross_compare_begin

gui_cross_compare_scan == ~stop_event /\ cross_compare_scan

gui_cross_compare_list == ~stop_event /\ cross_compare_list

gui_cross_compare_step == ~stop_event /\ cross_compare_step

gui_cross_compare_exc_list == ~stop_event /\ cross_compare_exc_list

gui_cross_compare_exc_step == ~stop_event /\ cross_compare_exc_step

gui_update_repository_begin == ~stop_event /\ update_repository_begin

\* an updater loop that does not poll stop_event
update_repository_step_unpolled == update_repository_step

gui_update_repository_step == ~stop_event /\ update_repository_step

gui_cleanup_main_pdf_folder_begin == ~stop_event /\ cleanup_main_pdf_folder_begin

gui_cleanup_main_pdf_folder_step == ~stop_event /\ cleanup_main_pdf_folder_step

\* the cleanup loop is over: "Pipeline completed."
run_full_pipeline_completed == main_done

\* a poll finds stop_event set: the loops break, the stage functions and
\* run_full_pipeline return
run_full_pipeline_stopped ==
    /\ stop_event
    /\ pc \in Stages \ {"done"}
    /\ cur = <<>>
    /\ ~(pc = "cleanup" /\ todo = {})
    /\ pc' = "stopped"
    /\ todo' = {}
    /\ UNCHANGED <<hvars, rvars, lvars, failed, fsvars, gvars>>

\* worker(): finally: self.signals.pipeline_finished.emit()
pipeline_finished_emit ==
    /\ pc \in {"done", "stopped"}
    /\ pc' = "emitted"
    /\ signals' = signals + 1
    /\ workers' = workers - 1
    /\ runs' = Append(runs, IF pc = "stopped" THEN "cancelled" ELSE "completed")
    /\ UNCHANGED <<hvars, rvars, lvars, failed, fsvars, todo, stop_event, start_btn, stop_btn,
                   reset_btn, edits, worker_thread, cur>>

\* worker() returns: the thread is no longer alive
worker_exit ==
    /\ pc = "emitted"
    /\ pc' = "idle"
    /\ worker_thread' = "ended"
    /\ UNCHANGED <<hvars, rvars, lvars, failed, fsvars, todo, stop_event, start_btn, stop_btn,
                   reset_btn, edits, workers, signals, runs, cur>>

NextGui ==
    \/ browse
    \/ start_pipeline
    \/ stop_pipeline
    \/ reset_ui
    \/ on_pipeline_finished
    \/ gui_copy_pdfs_to_main_folder_begin
    \/ gui_process_file
    \/ gui_extract_texts_begin
    \/ gui_extract_texts_poll
    \/ gui_extract_texts_file
    \/ gui_deduplicate_text_files_begin
    \/ gui_deduplicate_text_files_step
    \/ gui_cross_compare_begin
    \/ gui_cross_compare_scan
    \/ gui_cross_compare_list
    \/ gui_cross_compare_step
    \/ gui_cross_compare_exc_list
    \/ gui_cross_compare_exc_step
    \/ gui_update_repository_begin
    \/ gui_update_repository_step
    \/ gui_cleanup_main_pdf_folder_begin
    \/ gui_cleanup_main_pdf_folder_step
    \/ run_full_pipeline_completed
    \/ run_full_pipeline_stopped
    \/ pipeline_finished_emit
    \/ worker_exit

SpecGui == InitGui /\ [][NextGui]_vars

\* the rest of extract_texts' loop turn for the file in hand
FileInHand ==
    /\ cur # <<>>
    /\ cur' = <<>>

\* The worker is a thread of its own that nothing suspends: it finishes the
\* file in hand, returns at the poll that finds stop_event set or after the last
\* stage, and emits pipeline_finished.
\* The polls do not depend on what the repository holds at first or on how a
\* PDF's text is obtained: the repository is empty, and a PDF has a text layer
\* ("P1") or no text at all ("P0").
InitGuiLive ==
    /\ InitGui
    /\ repo = EmptyDir
    /\ \A slot \in DOMAIN src : src[slot] \in {"P0", "P1"}

SpecGuiLive ==
    /\ InitGuiLive
    /\ [][NextGui]_vars
    /\ WF_cur(FileInHand)
    /\ WF_vars(run_full_pipeline_stopped)
    /\ WF_vars(run_full_pipeline_completed)
    /\ WF_vars(pipeline_finished_emit)

\* ----------------------------------------------------- logger specification
\* GUI_Logger: log puts a line on self.queue, from the worker thread (the
\* pipeline's self.log) or from the GUI thread (the handlers); the QTimer calls
\* _periodic_flush in the GUI thread, which takes lines off the queue without
\* waiting and appends each to the text widget.
Threads == {"worker", "gui"}

\* what the logger leaves alone
nolvars == <<hvars, failed, rvars, gvars, fsvars, pc, todo>>

\* GUI_Logger.__init__: an empty queue, the timer started
InitLog ==
    /\ HashIdle
    /\ PipelineIdle
    /\ ReportIdle
    /\ GuiIdle
    /\ queue = <<>>
    /\ console = <<>>
    /\ timer = TRUE
    /\ flushing = FALSE
    /\ logged = 0
    /\ waiting = {}

\* a log into a queue of one slot, whose put waits while the slot is taken
GUI_Logger_log_one_slot ==
    /\ logged < MaxLog
    /\ \E t \in Threads \ waiting :
        /\ t = "gui" => ~flushing
        /\ IF Len(queue) >= 1
           THEN /\ waiting' = waiting \cup {t}
                /\ UNCHANGED <<queue, logged>>
           ELSE /\ queue' = Append(queue, [by |-> t, n |-> logged + 1])
                /\ logged' = logged + 1
                /\ UNCHANGED waiting
    /\ UNCHANGED <<console, timer, flushing, nolvars>>

\* GUI_Logger.log: self.queue.put(line); put waits only while a queue with a
\* capacity is full
GUI_Logger_log ==
    /\ logged < MaxLog
    /\ \E t \in Threads \ waiting :
        /\ t = "gui" => ~flushing
        /\ IF maxsize > 0 /\ Len(queue) >= maxsize
           THEN /\ waiting' = waiting \cup {t}
                /\ UNCHANGED <<queue, logged>>
           ELSE /\ queue' = Append(queue, [by |-> t, n |-> logged + 1])
                /\ logged' = logged + 1
                /\ UNCHANGED waiting
    /\ UNCHANGED <<console, timer, flushing, nolvars>>

\* the timer's timeout: the GUI thread enters _periodic_flush
periodic_flush_begin ==
    /\ timer
    /\ ~flushing
    /\ flushing' = TRUE
    /\ UNCHANGED <<queue, console, timer, logged, waiting, nolvars>>

\* a flush that takes the line put last, as off a queue.LifoQueue
periodic_flush_get_lifo ==
    /\ flushing
    /\ queue # <<>>
    /\ queue' = SubSeq(queue, 1, Len(queue) - 1)
    /\ console' = Append(console, queue[Len(queue)])
    /\ UNCHANGED <<timer, flushing, logged, waiting, nolvars>>

\* line = self.queue.get_nowait(); log_signal.emit(line) runs _append_to_widget
periodic_flush_get ==
    /\ flushing
    /\ queue # <<>>
    /\ queue' = Tail(queue)
    /\ console' = Append(console, Head(queue))
    /\ UNCHANGED <<timer, flushing, logged, waiting, nolvars>>

\* get_nowait raises queue.Empty: _periodic_flush returns
periodic_flush_empty ==
    /\ flushing
    /\ queue = <<>>
    /\ flushing' = FALSE
    /\ UNCHANGED <<queue, console, timer, logged, waiting, nolvars>>

\* GUI_Logger.stop, called by closeEvent in the GUI thread: the timer is halted
GUI_Logger_stop ==
    /\ timer
    /\ ~flushing
    /\ timer' = FALSE
    /\ UNCHANGED <<queue, console, flushing, logged, waiting, nolvars>>

NextLog ==
    \/ GUI_Logger_log
    \/ periodic_flush_begin
    \/ periodic_flush_get
    \/ periodic_flush_empty
    \/ GUI_Logger_stop

SpecLog == InitLog /\ [][NextLog]_vars

\* The GUI thread runs Qt's event loop: while the timer is started its timeout
\* comes every 200 ms, and a flush that was entered goes on to its next get.
SpecLogLive ==
    /\ InitLog
    /\ [][NextLog]_vars
    /\ WF_vars(periodic_flush_begin)
    /\ WF_vars(periodic_flush_get)
    /\ WF_vars(periodic_flush_empty)

\* ================================================================== claims
Fingerprints(dir) == {sha256_hash(dir[k]) : k \in DOMAIN dir}

\* the fingerprint of the text the extraction obtains from a source file
SourceFingerprint(slot) == sha256_hash(extract_text_from_pdf(src[slot]))

\* the source holds PDFs only, under distinct names, all with extractable text
BatchOfDistinctExtractablePdfs ==
    /\ \A slot \in DOMAIN src :
        /\ IsPdf(slot[2])
        /\ extract_text_from_pdf(src[slot]) # <<>>
    /\ \A s1, s2 \in DOMAIN src : s1[2] = s2[2] => s1 = s2

\* C1: after a complete run from empty buckets and an empty repository over
\* PDFs with distinct names and extractable texts, Unique holds as many PDFs as
\* the batch has distinct fingerprints, the repository received as many texts,
\* and every other PDF is in Duplicates.
C1_EndToEndCounts ==
    (pc = "done" /\ repo0 = EmptyDir /\ BatchOfDistinctExtractablePdfs)
        => LET n == Cardinality({SourceFingerprint(slot) : slot \in DOMAIN src})
           IN  /\ Cardinality(PdfFiles(uniq)) = n
               /\ Cardinality(DOMAIN repo) = n
               /\ Len(filed) = n
               /\ \A slot \in DOMAIN src :
                    exists(uniq, slot[2]) \/ exists(dup, slot[2])
               /\ Cardinality(PdfFiles(dup)) = Cardinality(DOMAIN src) - n

\* C2: a batch text whose fingerprint the repository already holds has, after a
\* complete run, its PDF in Duplicates and not in Unique or staging, its text
\* deleted, and no repository entry added for it.
C2_RepositoryDuplicate ==
    pc = "done"
        => \A i \in 1..Len(order) :
             order[i].h \in Fingerprints(repo0)
                => LET f == order[i].name
                       pdf == origin[f]
                   IN  /\ exists(dup, pdf)
                       /\ ~exists(uniq, pdf)
                       /\ ~exists(main, pdf)
                       /\ ~exists(text, f)
                       /\ \A k \in DOMAIN repo \ DOMAIN repo0 :
                            sha256_hash(repo[k]) # order[i].h

\* C3: when local dedup has visited the whole batch, of the texts with one
\* fingerprint exactly the first visited keeps its text and its PDF in
\* staging; each later one has its text deleted and its PDF in Duplicates.
C3_FirstSeenWins ==
    (pc = "dedup" /\ todo = {})
        => \A i \in 1..Len(order) :
             LET f == order[i].name
                 pdf == origin[f]
                 first == \A j \in 1..(i - 1) : order[j].h # order[i].h
             IN  IF first
                 THEN exists(text, f) /\ exists(main, pdf) /\ ~exists(dup, pdf)
                 ELSE ~exists(text, f) /\ exists(dup, pdf) /\ ~exists(main, pdf)

\* The normal form the fingerprint is said to be taken of: every character
\* lower-cased, every whitespace character deleted.
IsNotWhitespace(c) == c \notin Whitespace

NormalForm(t) == SelectSeq(lower(t), IsNotWhitespace)

\* C4: two texts that are equal after lower-casing and deleting all whitespace
\* have the same fingerprint.
C4_CaseWhitespaceInvariant ==
    (outA # <<>> /\ outB # <<>> /\ NormalForm(inA) = NormalForm(inB))
        => outA = outB

\* C4 witness: the fingerprints of "Invoice  #123" and "invoice#123" have both
\* been computed and are equal.
C4_Witness ==
    /\ inA = ExInvoiceSpaced
    /\ inB = ExInvoicePlain
    /\ outA # <<>>
    /\ outA = outB

NonPdfSlots == {slot \in DOMAIN src : ~IsPdf(slot[2])}

\* C6 as stated: after a complete run a non-PDF source file is in Exception and
\* also in Unique.
C6_NonPdfCopiedToUnique ==
    pc = "done"
        => \A slot \in NonPdfSlots :
             exists(exc, slot[2]) /\ exists(uniq, slot[2])

\* C6 amended: once intake is over a non-PDF source file is in Exception with
\* the source's contents, and it is at no time in Unique.
C6_NonPdfStaysInException ==
    \A slot \in NonPdfSlots :
        /\ pc \notin {"start", "intake"}
             => exists(exc, slot[2]) /\ read(exc, slot[2]) = src[slot]
        /\ ~exists(uniq, slot[2])

\* C6 witness: a complete run over a source with a non-PDF file, which is in
\* Exception.
C6_Witness ==
    /\ pc = "done"
    /\ \E slot \in NonPdfSlots : exists(exc, slot[2])

InComparison == pc \in {"scan", "compare", "copyexc"}

\* C7: no step of the comparison stage changes the Exception folder, and every
\* Exception PDF the exception loop has visited is in Unique with the same
\* contents as in Exception.
C7_ExceptionCopiedNotMoved ==
    [][InComparison
        => /\ exc' = exc
           /\ pc' = "copyexc"
                => \A f \in PdfFiles(exc') \ todo' :
                     exists(uniq', f) /\ read(uniq', f) = read(exc', f)]_vars

\* C7 witness: the exception loop has finished over an Exception folder that
\* holds a PDF, which is now in Unique too.
C7_Witness ==
    /\ pc = "copyexc"
    /\ todo = {}
    /\ \E f \in PdfFiles(exc) : exists(uniq, f)

FiledNames == {filed[i] : i \in 1..Len(filed)}

\* C8: the names the updater files are pairwise distinct, none is a name the
\* repository held before, each is the base name or a suffix whose smaller
\* suffixes (and the base name) are all taken, suffixes grow in filing order,
\* and every earlier entry keeps its contents.
C8_CollisionFreeNaming ==
    /\ Cardinality(FiledNames) = Len(filed)
    /\ FiledNames \cap DOMAIN repo0 = {}
    /\ DOMAIN repo = DOMAIN repo0 \cup FiledNames
    /\ \A k \in FiledNames :
        /\ k.stamp = stamp
        /\ \A m \in 0..(k.n - 1) : RepoName(stamp, m) \in DOMAIN repo
    /\ \A i, j \in 1..Len(filed) : i < j => filed[i].n < filed[j].n
    /\ \A k \in DOMAIN repo0 : repo[k] = repo0[k]

\* C8 witness: a complete run filed two texts under a timestamp whose base name
\* the repository already held.
C8_Witness ==
    /\ pc = "done"
    /\ Len(filed) >= 2
    /\ RepoName(stamp, 0) \in DOMAIN repo0

\* C9: from the first classification on, the comparator's fingerprint set is
\* that of the repository as it was before the run, also after the updater has
\* filed texts; and the repository is unchanged during the comparison stage.
C9_SnapshotComparison ==
    /\ pc \in {"compare", "copyexc", "update", "cleanup", "done"}
         => repo_hashes = Fingerprints(repo0)
    /\ InComparison => repo = repo0

\* C9 witness: the updater has filed a text whose fingerprint is not in the
\* comparator's non-empty set.
C9_Witness ==
    /\ pc = "done"
    /\ repo_hashes # {}
    /\ \E k \in FiledNames : sha256_hash(repo[k]) \notin repo_hashes

FingerprintClean(dir) ==
    \A f, g \in DOMAIN dir : sha256_hash(dir[f]) = sha256_hash(dir[g]) => f = g

\* C10: while local dedup runs, for the first or the second time, over a text
\* folder with pairwise distinct fingerprints, no step deletes a text or moves
\* a PDF.
C10_DedupIdempotentOnCleanBatch ==
    [][(pc' = "dedup" /\ FingerprintClean(text))
        => UNCHANGED <<text, main, dup>>]_vars

\* C10 witness: the second call has visited a clean batch of at least two
\* texts, all still there.
C10_Witness ==
    /\ pc = "dedup"
    /\ todo = {}
    /\ reruns = 0
    /\ Len(order) >= 2
    /\ FingerprintClean(text)
    /\ Cardinality(DOMAIN text) = Len(order)

\* a name that ends in .pdf in some letter case
EndsInPdfAnyCase(f) == f.ext \in {"pdf", "PDF"}

\* the contents of the source files of one name
SourceContents(f) == {src[s] : s \in {t \in DOMAIN src : t[2] = f}}

\* the intake loop has visited the whole source tree
IntakeOver == pc = "intake" /\ todo = {}

\* C11: when intake is over, every source file whose name ends in .pdf in any
\* letter case is in staging with the contents of a source file of that name
\* and not in Exception, every other source file is in Exception with its
\* source contents and not in staging, the two folders hold nothing else, and
\* no step of the run changes the source tree.
C11_IntakeClassifiesAndCopies ==
    /\ [](IntakeOver
            => /\ \A slot \in DOMAIN src :
                    LET f == slot[2] IN
                    IF EndsInPdfAnyCase(f)
                    THEN /\ exists(main, f)
                         /\ read(main, f) \in SourceContents(f)
                         /\ ~exists(exc, f)
                    ELSE /\ exists(exc, f)
                         /\ read(exc, f) \in SourceContents(f)
                         /\ ~exists(main, f)
               /\ \A k \in DOMAIN main \cup DOMAIN exc :
                    \E slot \in DOMAIN src : slot[2] = k)
    /\ [][src' = src]_vars

\* C11 witness: intake is over for a source with a PDF of upper-case extension,
\* now in staging, and a non-PDF file, now in Exception.
C11_Witness ==
    /\ IntakeOver
    /\ \E s1, s2 \in DOMAIN src :
        /\ s1[2].ext = "PDF"
        /\ exists(main, s1[2])
        /\ ~EndsInPdfAnyCase(s2[2])
        /\ exists(exc, s2[2])

\* C12: when intake is over, every source file other than those whose copy
\* raised an error is in staging or in Exception by its extension.
C12_IntakeBestEffortPerFile ==
    IntakeOver
        => \A slot \in DOMAIN src \ failed :
             IF EndsInPdfAnyCase(slot[2])
             THEN exists(main, slot[2])
             ELSE exists(exc, slot[2])

\* C13: a call of the reporter on a missing folder, in the command-line and
\* in the GUI variant, ends without an error and with an empty listing.
C13_ReporterToleratesMissingBucket ==
    (report # <<>> /\ bucket = <<>>)
        => report[1].raised = "" /\ report[1].rows = {}

\* the PDF names present in some bucket
BucketPdfNames == PdfFiles(main) \cup PdfFiles(uniq) \cup PdfFiles(dup) \cup PdfFiles(exc)

\* the buckets that hold a file of the name f
Holders(f) ==
    {b \in {"staging", "Unique", "Duplicates", "Exception"} :
        exists(CASE b = "staging" -> main
                 [] b = "Unique" -> uniq
                 [] b = "Duplicates" -> dup
                 [] OTHER -> exc, f)}

\* C14: in every state of a run that starts with empty buckets, a PDF name is
\* in one bucket only, or in Exception and Unique and no other.
C14_BucketExclusivity ==
    \A f \in BucketPdfNames :
        \/ Cardinality(Holders(f)) = 1
        \/ Holders(f) = {"Exception", "Unique"}

\* C14 witness: a complete run left one PDF in Exception with its copy in
\* Unique, one in Duplicates and one in Unique only.
C14_Witness ==
    /\ pc = "done"
    /\ \E f \in PdfFiles(exc) : exists(uniq, f)
    /\ PdfFiles(dup) # {}
    /\ \E f \in PdfFiles(uniq) : ~exists(exc, f)

\* C17: whenever the updater files a text into the repository, the PDF the
\* text was extracted from is in Unique and neither in staging nor in
\* Exception.
C17_FiledTextHasUniquePdf ==
    [][pc = "update"
        => \A f \in DOMAIN text \ DOMAIN text' :
             LET pdf == origin[f]
             IN  /\ exists(uniq, pdf)
                 /\ ~exists(main, pdf)
                 /\ ~exists(exc, pdf)]_vars

AfterComparison == pc \in {"update", "cleanup", "done"}

\* C18: no step takes a PDF out of Unique or out of Duplicates, changes its
\* contents, or puts a PDF of its name into the other of the two or back into
\* staging; and once the comparison stage is over, staging changes only by
\* cleanup steps, each moving PDFs from staging into Exception.
C18_BucketsMonotone ==
    [][/\ \A f \in DOMAIN uniq :
            /\ f \in DOMAIN uniq' /\ uniq'[f] = uniq[f]
            /\ ~exists(dup', f) /\ ~exists(main', f)
       /\ \A f \in DOMAIN dup :
            /\ f \in DOMAIN dup' /\ dup'[f] = dup[f]
            /\ ~exists(uniq', f) /\ ~exists(main', f)
       /\ (AfterComparison /\ main' # main)
            => /\ pc = "cleanup"
               /\ DOMAIN main' \subseteq DOMAIN main
               /\ \A f \in DOMAIN main \ DOMAIN main' :
                    exists(exc', f) /\ read(exc', f) = main[f]]_vars

\* C18 witness: a complete run that placed a PDF in Unique and one in
\* Duplicates, both still there, and whose cleanup moved a leftover PDF with
\* extractable text into Exception.
C18_Witness ==
    /\ pc = "done"
    /\ \E f \in PdfFiles(uniq) : ~exists(exc, f)
    /\ PdfFiles(dup) # {}
    /\ \E f \in PdfFiles(exc) :
        /\ extract_text_from_pdf(exc[f]) # <<>>
        /\ ~exists(uniq, f)

\* the source files intake accepts as PDFs
CandidateSlots == {slot \in DOMAIN src : EndsInPdfAnyCase(slot[2])}

\* ... and of those of one name the one the walk copies last, which staging keeps
StagedSlots ==
    {slot \in CandidateSlots :
        \A other \in CandidateSlots : other[2] = slot[2] => other[1] <= slot[1]}

\* C19 as stated: the run reaches its end, and then staging holds no PDF, the
\* text folder no text, every candidate PDF is in exactly one of Unique,
\* Duplicates and Exception, and every text extracted from a staged PDF has its
\* fingerprint in the repository.
C19_ExactlyOneTerminalBucket ==
    pc = "done"
        => /\ PdfFiles(main) = {}
           /\ TxtFiles(text) = {}
           /\ \A slot \in CandidateSlots : Cardinality(Holders(slot[2])) = 1
           /\ \A slot \in StagedSlots :
                extract_text_from_pdf(src[slot]) # <<>>
                    => SourceFingerprint(slot) \in Fingerprints(repo)

\* the state a complete run ends in
Terminal ==
    /\ PdfFiles(main) = {}
    /\ TxtFiles(text) = {}
    /\ \A slot \in CandidateSlots :
         LET f == slot[2] IN
         \/ Holders(f) \in {{"Unique"}, {"Duplicates"}, {"Exception"}}
         \/ /\ Holders(f) = {"Exception", "Unique"}
            /\ extract_text_from_pdf(read(exc, f)) = <<>>
            /\ read(uniq, f) = read(exc, f)
    /\ \A slot \in StagedSlots :
         extract_text_from_pdf(src[slot]) # <<>>
             => SourceFingerprint(slot) \in Fingerprints(repo)

\* C19 amended: every run without errors reaches its end, and then staging
\* holds no PDF, the text folder no text, every candidate PDF is in exactly one
\* of Unique, Duplicates and Exception, or, if its text could not be extracted,
\* in Exception with a copy in Unique, and every text extracted from a staged
\* PDF has its fingerprint in the repository.
C19_EveryDocumentTerminal ==
    /\ <>(pc = "done")
    /\ [](pc = "done" => Terminal)

\* C19 witness: a complete run over a PDF without extractable text, now in
\* Exception and Unique, and PDFs that ended in Unique only and in Duplicates.
C19_Witness ==
    /\ pc = "done"
    /\ Terminal
    /\ \E slot \in CandidateSlots : Holders(slot[2]) = {"Exception", "Unique"}
    /\ \E slot \in CandidateSlots : Holders(slot[2]) = {"Unique"}
    /\ \E slot \in CandidateSlots : Holders(slot[2]) = {"Duplicates"}

\* C20: every step that changes the stage goes from a stage to the one main()
\* calls next (intake, extract, local dedup, the comparison's three loops,
\* update, cleanup, end), and only when the running loop has no item left; so
\* no stage is entered twice.
C20_StagesInSequence ==
    [][pc' # pc
        => /\ todo = {}
           /\ \E i \in 1..(Len(StageOrder) - 1) :
                pc = StageOrder[i] /\ pc' = StageOrder[i + 1]]_vars

\* C20 witness: a run went through all stages, each with work to do: a file
\* that went to Exception, a repository to scan, a PDF moved to Duplicates and a
\* text filed.
C20_Witness ==
    /\ pc = "done"
    /\ DOMAIN exc # {}
    /\ DOMAIN repo0 # {}
    /\ PdfFiles(dup) # {}
    /\ Len(filed) >= 1

\* C16: at no time are two threads inside run_full_pipeline, and a worker is
\* started only when no thread is inside it and the signal of every earlier
\* worker has been emitted and handled.
C16_SingleWorker ==
    /\ [](workers <= 1)
    /\ [][workers' > workers
            => /\ workers = 0
               /\ signals = 0
               /\ pc \in {"idle", "emitted"}]_vars

\* C16 witness: after a first worker that was stopped, a second worker is at
\* work.
C16_Witness ==
    /\ runs = <<"cancelled">>
    /\ workers = 1
    /\ pc = "extract"

\* The buckets a staged source PDF can end in after one uninterrupted run from
\* empty buckets: Exception with a copy in Unique if its text cannot be
\* extracted, Exception if the comparator cannot find it under its lower-case
\* name, Duplicates if the repository held its fingerprint, Unique or
\* Duplicates if another PDF of the batch has its fingerprint, else Unique.
UninterruptedHolders(slot) ==
    LET txt == extract_text_from_pdf(src[slot])
        twins == {o \in StagedSlots \ {slot} :
                    /\ extract_text_from_pdf(src[o]) # <<>>
                    /\ SourceFingerprint(o) = SourceFingerprint(slot)}
    IN  IF txt = <<>> THEN {{"Exception", "Unique"}}
        ELSE IF ~exists([k \in {slot[2]} |-> "BIN"], PdfName(slot[2]))
             THEN {{"Exception"}}
        ELSE IF sha256_hash(txt) \in Fingerprints(repo0) THEN {{"Duplicates"}}
        ELSE IF twins # {} THEN {{"Unique"}, {"Duplicates"}}
        ELSE {{"Unique"}}

\* C15: when a run that a poll of stop_event ended has been followed by a run
\* that completed, over the same source and repository folders, every staged
\* source PDF is in the buckets an uninterrupted run can leave it in, none is in
\* both Unique and Duplicates, and every extracted fingerprint is in the
\* repository.
C15_RestartSafe ==
    (runs = <<"cancelled", "completed">> /\ workers = 0)
        => \A slot \in StagedSlots :
             /\ Holders(slot[2]) \in UninterruptedHolders(slot)
             /\ ~(exists(uniq, slot[2]) /\ exists(dup, slot[2]))
             /\ extract_text_from_pdf(src[slot]) # <<>>
                    => SourceFingerprint(slot) \in Fingerprints(repo)

\* C21: while stop_event is set and the worker is inside run_full_pipeline, a
\* step changes a folder or the repository only by finishing the file the
\* worker has in hand, no step takes up another file, no step enters a later
\* stage, and the worker leaves run_full_pipeline.
C21_CancellationBetweenFiles ==
    /\ [][(stop_event /\ pc \in Stages)
            => /\ dirs' # dirs => (cur # <<>> /\ cur' = <<>>)
               /\ cur' \in {cur, <<>>}
               /\ pc' \in {pc, "stopped", "emitted"} \/ (pc = "cleanup" /\ pc' = "done")
               /\ todo' \in {todo, {}}]_vars
    /\ (stop_event /\ workers = 1) ~> (workers = 0)

\* C21 witness: a run that Stop ended after extraction had begun has left
\* texts and staged PDFs behind, and its worker is gone.
C21_Witness ==
    /\ runs = <<"cancelled">>
    /\ workers = 0
    /\ stop_event
    /\ TxtFiles(text) # {}
    /\ PdfFiles(main) # {}

\* C22: a step of the extraction stage moves a PDF from staging to Exception
\* only if the extraction obtains no text of MinTextLen characters from it, also
\* when stop_event is set while the stage handles the file.
C22_ExceptionOnlyOnExtractionFailure ==
    [][pc = "extract"
        => \A f \in DOMAIN main \ DOMAIN main' :
             /\ exists(exc', f)
             /\ extract_text_from_pdf(main[f]) = <<>>]_vars

\* C23: a step of the updater in which the move of a text fails leaves that
\* text where it is and the repository as it is and goes on with the batch; and
\* when the updater is done, exactly the texts whose move failed are left and the
\* repository has grown by the texts filed, each under a name of its own.
C23_UpdaterCommitsPerItem ==
    /\ [][failed' # failed
            => /\ text' = text
               /\ repo' = repo
               /\ todo' = todo \ failed']_vars
    /\ [](pc = "cleanup"
            => /\ TxtFiles(text) = failed
               /\ Cardinality(FiledNames) = Len(filed)
               /\ DOMAIN repo = DOMAIN repo0 \cup FiledNames)

\* the text the dedup turn just taken visited, and whether the turn found it
\* to be a local duplicate with no PDF of its base name in staging
Visited == order'[Len(order')]

DuplicateWithoutPdf ==
    /\ pc = "dedup"
    /\ Len(order') = Len(order) + 1
    /\ Visited.h \in DOMAIN seen_hashes
    /\ ~exists(main, PdfName(Visited.name))

\* C24: a dedup turn that finds a local duplicate whose PDF is not in staging
\* deletes the text, changes no other folder, records no error, and leaves the
\* rest of the listing to be visited.
C24_DuplicateTextWithoutPdf ==
    [][DuplicateWithoutPdf
        => /\ ~exists(text', Visited.name)
           /\ DOMAIN text' = DOMAIN text \ Stored(text, Visited.name)
           /\ UNCHANGED <<main, dup, exc, uniq, repo, failed>>
           /\ todo' = todo \ {Visited.name}]_vars

\* C24 witness: the first call is over; it visited a duplicate text with no PDF
\* in staging, deleted it and moved nothing to Duplicates, and visited another
\* text after it.
C24_Witness ==
    /\ pc = "dedup"
    /\ todo = {}
    /\ reruns = 1
    /\ dup = EmptyDir
    /\ \E i \in 1..(Len(order) - 1) :
        /\ \E j \in 1..(i - 1) : order[j].h = order[i].h
        /\ ~exists(text, order[i].name)
        /\ ~exists(main, PdfName(order[i].name))

\* the fingerprints of the repository files whose read did not fail
ReadableFingerprints == {sha256_hash(repo0[k]) : k \in DOMAIN repo0 \ failed}

\* C25: once the loop over the repository is over, the comparison set holds
\* the fingerprints of exactly the repository files that could be read; and
\* when the comparison loop is over, every text local dedup kept has been
\* classified against that set: deleted and not in Unique if its fingerprint is
\* in the set, else still there and not in Duplicates.
C25_UnreadableRepositoryFile ==
    /\ pc \in {"compare", "copyexc", "update", "cleanup", "done"}
         => repo_hashes = ReadableFingerprints
    /\ pc = "copyexc"
         => \A h \in DOMAIN seen_hashes :
              LET f == seen_hashes[h] IN
              IF h \in ReadableFingerprints
              THEN ~exists(text, f) /\ ~exists(uniq, PdfName(f))
              ELSE exists(text, f) /\ ~exists(dup, PdfName(f))

\* C25 witness: of two repository files one could not be read and one was
\* fingerprinted; the run filed a batch text that has the fingerprint of the
\* unreadable file.
C25_Witness ==
    /\ pc = "done"
    /\ repo_hashes # {}
    /\ \E k \in failed : \E n \in FiledNames : sha256_hash(repo[n]) = sha256_hash(repo0[k])

\* the place of a text's name in filename lexical order
LexRank(f) ==
    CASE f.base = "a" -> 1
      [] f.base = "b" -> 2
      [] f.base = "c" -> 3
      [] OTHER -> 4

\* C26: every call of deduplicate_text_files visits the texts in filename
\* lexical order, so that of the texts with one fingerprint the lexically first
\* is the one retained.
C26_DedupVisitsInLexicalOrder ==
    /\ \A i, j \in 1..Len(order) :
         i < j => LexRank(order[i].name) < LexRank(order[j].name)
    /\ \A h \in DOMAIN seen_hashes :
         \A i \in 1..Len(order) :
            order[i].h = h => LexRank(seen_hashes[h]) <= LexRank(order[i].name)

\* C27 as stated: the queue between log and the display has a capacity, never
\* holds more lines than that, and no thread waits in log or in the flush.
C27_BoundedQueueNeverBlocks ==
    /\ maxsize > 0
    /\ Len(queue) <= maxsize
    /\ waiting = {}

\* C27 amended: the queue has no capacity; no thread ever waits in log or in
\* the flush, whatever the queue holds; every line put is in the queue or on
\* the display; and a flush that finds the queue empty returns at its next step.
C27_UnboundedQueueNeverBlocks ==
    /\ [](/\ maxsize <= 0
          /\ waiting = {}
          /\ Len(queue) + Len(console) = logged)
    /\ [][(flushing /\ queue = <<>> /\ console' = console /\ queue' = queue)
            => ~flushing']_vars

\* C27 witness: log has returned with two lines or more in the queue, after a
\* flush that emitted a line and returned.
C27_Witness ==
    /\ Len(queue) >= 2
    /\ console # <<>>
    /\ ~flushing
    /\ waiting = {}

\* C28: when intake is over, the PDF count it reports is the number of files
\* in staging and the non-PDF count the number of files in Exception, also for
\* a source tree with files of one name in several folders.
C28_IntakeCountsExact ==
    IntakeOver
        => /\ pdf_count = Cardinality(DOMAIN main)
           /\ other_count = Cardinality(DOMAIN exc)

\* (texts have pairwise distinct fingerprints when there are as many
\* fingerprints as texts)
\* C29: after a complete run that started with an empty text folder and a
\* repository whose texts had pairwise distinct fingerprints, the repository's
\* texts have pairwise distinct fingerprints, and every entry it held before
\* the run is there with its contents.
C29_RepositoryFingerprintsDistinct ==
    (pc = "done" /\ Cardinality(Fingerprints(repo0)) = Cardinality(DOMAIN repo0))
        => /\ Cardinality(Fingerprints(repo)) = Cardinality(DOMAIN repo)
           /\ \A k \in DOMAIN repo0 : k \in DOMAIN repo /\ repo[k] = repo0[k]

\* C29 witness: a complete run on a repository of two texts filed a new text
\* and discarded a batch text whose fingerprint the repository held.
C29_Witness ==
    /\ pc = "done"
    /\ Cardinality(DOMAIN repo0) = 2
    /\ Cardinality(Fingerprints(repo0)) = 2
    /\ Len(filed) >= 1
    /\ \E i \in 1..Len(order) : order[i].h \in Fingerprints(repo0)

\* C30: in a run that follows a complete run on the same source and repository
\* folders no step changes the repository, and at its end every staged source
\* PDF with extractable text is in Duplicates.
C30_RerunIdempotent ==
    /\ [][runs # <<>> => repo' = repo]_vars
    /\ []((pc = "done" /\ runs # <<>>)
            => \A slot \in StagedSlots :
                 extract_text_from_pdf(src[slot]) # <<>> => exists(dup, slot[2]))

\* the lines in the order of their put: those on the display, then those queued
Delivery == console \o queue

Emitted(n) == \E i \in 1..Len(console) : console[i].n = n

Queued(n) == \E i \in 1..Len(queue) : queue[i].n = n

\* C31: the lines on the display followed by the lines in the queue are the
\* lines passed to log, each once and in the order of their put, whichever
\* thread put them; a line in the queue is on the display later unless the
\* timer is halted; once stop has halted the timer it stays halted and no line
\* reaches the display.
C31_FifoExactlyOnceDelivery ==
    /\ [](/\ Len(Delivery) = logged
          /\ \A i \in 1..Len(Delivery) : Delivery[i].n = i)
    /\ \A n \in 1..MaxLog : Queued(n) ~> (Emitted(n) \/ ~timer)
    /\ [][~timer => (~timer' /\ console' = console)]_vars

\* C31 witness: stop has halted the timer after a flush put on the display a
\* line of the worker thread and a line of the GUI thread, with a line still in
\* the queue.
C31_Witness ==
    /\ ~timer
    /\ queue # <<>>
    /\ \E i, j \in 1..Len(console) : console[i].by = "worker" /\ console[j].by = "gui"

====
